---- MODULE Spec2Model ----
(***************************************************************************)
(* Keyboard input forwarding of bevy_ratatui                               *)
(* (src/src/input_forwarding/keyboard.rs, src/src/event.rs).               *)
(*                                                                         *)
(* One step of the model is one frame of the PreUpdate schedule: the raw   *)
(* poll delivers the frame's crossterm key events, then the systems of     *)
(* KeyboardPlugin run in the order of their sets (Pre, CheckEmulation,     *)
(* EmitBevy) with the deferred commands of a set applied before the next   *)
(* set runs.  Every system reads exactly the key events of its frame.      *)
(* Between two frames the application may write the EmulationPolicy and    *)
(* the ReleaseKey resources.                                               *)
(*                                                                         *)
(* Time is counted in whole units; a Duration is a number of units.        *)
(* KeyboardInput.window is the single DummyWindow entity and is left out.  *)
(***************************************************************************)
EXTENDS Integers, Sequences, FiniteSets, TLC

(***************************************************************************)
(* Bounds of the model.                                                    *)
(***************************************************************************)
MaxEvents == 2        \* raw key events delivered in one frame
MaxDelta == 1         \* largest Time::delta() of a frame, in units
MaxDuration == 2      \* largest configured ReleaseKey::Duration, in units
MaxFrameCount == 2    \* largest configured ReleaseKey::FrameCount

(***************************************************************************)
(* Capability: a bitflags set over u8, a value is the set of its bit       *)
(* positions.                                                              *)
(***************************************************************************)
U8Bits == 0..7
KEY_RELEASE == {0}
MODIFIER == {1}
ALL == KEY_RELEASE \cup MODIFIER
NONE == {}
Capabilities == SUBSET ALL

\* The complement of the bits without the truncation.
CapabilityNotUntruncated(c) == U8Bits \ c
\* bitflags `!`: the complement of the bits, truncated to the defined flags.
CapabilityNot(c) == (U8Bits \ c) \cap ALL

Automatic == [kind |-> "Automatic", capability |-> NONE]
Manual(c) == [kind |-> "Manual", capability |-> c]
Policies == {Automatic} \cup {Manual(c) : c \in Capabilities}

\* emulate_capabilities with a complement that keeps the undefined bits.
emulate_capabilities_untruncated(p, d) ==
    IF p.kind = "Automatic" THEN CapabilityNotUntruncated(d) ELSE p.capability
emulate_capabilities(p, d) ==
    IF p.kind = "Automatic" THEN CapabilityNot(d) ELSE p.capability

(***************************************************************************)
(* crossterm key events and their translation.                             *)
(***************************************************************************)
\* KeyModifiers in the order bitflags iterates them (ascending bit).
ModifierOrder == <<"SHIFT", "CONTROL", "ALT", "SUPER", "HYPER", "META">>
KeyModifiers == {ModifierOrder[i] : i \in 1..Len(ModifierOrder)}

KeyEvent(c, m, k) == [code |-> c, modifiers |-> m, kind |-> k]

\* The raw key events a terminal delivers in the model.
RawEvents ==
    { KeyEvent("a", {}, "Press"), KeyEvent("a", {"SHIFT"}, "Press"),
      KeyEvent("a", {}, "Repeat"), KeyEvent("a", {}, "Release"),
      KeyEvent("b", {}, "Press"), KeyEvent("b", {"SHIFT", "CONTROL"}, "Press"),
      KeyEvent("LeftShift", {"SHIFT"}, "Press"),
      KeyEvent("Null", {}, "Release") }

\* Option values are sequences of length 0 (None) or 1 (Some).
to_bevy_keycode(code) ==
    CASE code = "a" -> << [key_code |-> "KeyA", mods |-> {}] >>
      [] code = "b" -> << [key_code |-> "KeyB", mods |-> {}] >>
      [] code = "!" -> << [key_code |-> "Digit1", mods |-> {"SHIFT"}] >>
      [] code = "LeftShift" -> << [key_code |-> "ShiftLeft", mods |-> {}] >>
      [] OTHER -> << >>

to_bevy_key(code) ==
    CASE code = "a" -> << "a" >>
      [] code = "b" -> << "b" >>
      [] code = "!" -> << "!" >>
      [] code = "LeftShift" -> << "Shift" >>
      [] OTHER -> << >>

KeyboardInput(kc, lk, st) == [key_code |-> kc, logical_key |-> lk, state |-> st]

key_event_to_bevy(key_event) ==
    LET repeated == key_event.kind = "Repeat"
        state == IF key_event.kind = "Press" THEN "Pressed" ELSE "Released"
        key_code == to_bevy_keycode(key_event.code)
        logical_key == to_bevy_key(key_event.code)
    IN  IF key_code = << >> \/ logical_key = << >>
        THEN << >>
        ELSE << [event |-> KeyboardInput(key_code[1].key_code, logical_key[1], state),
                 mods |-> key_event.modifiers \cup key_code[1].mods,
                 repeated |-> repeated] >>

\* The translations of the key events evs that translate to something.
RECURSIVE Translated(_)
Translated(evs) ==
    IF evs = << >> THEN << >>
    ELSE key_event_to_bevy(Head(evs)) \o Translated(Tail(evs))

\* A mask handed on whole, as one flag.
Flags_whole(mask) == IF mask = {} THEN << >> ELSE <<mask>>

\* The flags of a mask as bitflags iterates them: one mask of one bit for each
\* defined flag of the mask, in ascending bit order.
Flags(mask) ==
    LET order == SelectSeq(ModifierOrder, LAMBDA f : f \in mask)
    IN  [i \in 1..Len(order) |-> {order[i]}]

\* What stands for a frame aborted by a panic.
Panic == KeyboardInput("panic", "panic", "panic")

\* The result is "panic" where the code panics: expect("mod") on an empty
\* mask, the final assert on a mask of several flags, the match otherwise.
crossterm_modifier_to_bevy_key(modifier) ==
    LET i == Flags(modifier) IN
    IF i = << >> THEN "panic"
    ELSE IF Len(i) > 1 THEN "panic"
    ELSE CASE i[1] = {"SHIFT"} -> "Shift"
           [] i[1] = {"CONTROL"} -> "Control"
           [] i[1] = {"ALT"} -> "Alt"
           [] i[1] = {"SUPER"} -> "Super"
           [] i[1] = {"HYPER"} -> "Hyper"
           [] i[1] = {"META"} -> "Meta"
           [] OTHER -> "panic"

modifier_to_bevy(modifier, state) ==
    CASE modifier = "Control" -> KeyboardInput("ControlLeft", modifier, state)
      [] modifier = "Shift" -> KeyboardInput("ShiftLeft", modifier, state)
      [] modifier = "Alt" -> KeyboardInput("AltLeft", modifier, state)
      [] modifier = "Hyper" -> KeyboardInput("Hyper", modifier, state)
      [] modifier = "Meta" -> KeyboardInput("Meta", modifier, state)
      [] modifier = "Super" -> KeyboardInput("SuperLeft", modifier, state)
      [] OTHER -> Panic

(***************************************************************************)
(* ReleaseKey and its ReleaseKeyState.                                     *)
(***************************************************************************)
ReleaseKeyState(t, c, d, e, f) ==
    [tag |-> t, count |-> c, duration |-> d, elapsed |-> e, finished |-> f]
StateNone == ReleaseKeyState("None", 0, 0, 0, FALSE)
Count(c) == ReleaseKeyState("Count", c, 0, 0, FALSE)
\* bevy Timer::new(d, TimerMode::Once)
TimerNew(d) == ReleaseKeyState("Timer", 0, d, 0, FALSE)

Duration(d) == [kind |-> "Duration", arg |-> d]
FrameCount(n) == [kind |-> "FrameCount", arg |-> n]
Immediate == [kind |-> "Immediate", arg |-> 0]
OnNextKey == [kind |-> "OnNextKey", arg |-> 0]
Strategies ==
    {Duration(d) : d \in 1..MaxDuration} \cup {FrameCount(n) : n \in 1..MaxFrameCount}
    \cup {Immediate, OnNextKey}
Deltas == 1..MaxDelta

\* A timer whose tick forgets the time elapsed before it.
TimerTick_forgets(t, delta) ==
    IF t.finished THEN t
    ELSE IF delta >= t.duration
         THEN [t EXCEPT !.elapsed = t.duration, !.finished = TRUE]
         ELSE [t EXCEPT !.elapsed = delta]

\* The tick of a timer in TimerMode::Repeating: it wraps around and is
\* finished only on the tick that completes a round.
TimerTick_repeating(t, delta) ==
    [t EXCEPT !.elapsed = (t.elapsed + delta) % t.duration,
              !.finished = t.elapsed + delta >= t.duration]

\* bevy Timer::tick in TimerMode::Once: a finished timer stays finished, the
\* elapsed time is clamped to the duration.
TimerTick(t, delta) ==
    IF t.finished THEN t
    ELSE IF t.elapsed + delta >= t.duration
         THEN [t EXCEPT !.elapsed = t.duration, !.finished = TRUE]
         ELSE [t EXCEPT !.elapsed = t.elapsed + delta]
\* bevy Timer::reset: the elapsed time goes back to zero, the duration stays.
TimerReset(t) == [t EXCEPT !.elapsed = 0, !.finished = FALSE]

\* u32::saturating_add(1); a count of the model stays far below u32::MAX, where
\* the addition saturates.
SaturatingAdd(c) == c + 1

\* A tick that starts the count and the timer again.
tick_restarts(release, state, delta) ==
    CASE release.kind \in {"FrameCount", "Immediate"} -> Count(0)
      [] release.kind = "Duration" -> TimerNew(release.arg)
      [] OTHER -> state

tick(release, state, delta) ==
    CASE release.kind \in {"FrameCount", "Immediate"} ->
            IF state.tag = "Count" THEN Count(SaturatingAdd(state.count)) ELSE Count(0)
      [] release.kind = "Duration" ->
            IF state.tag = "Timer" THEN TimerTick(state, delta) ELSE TimerNew(release.arg)
      [] OTHER -> state

\* finished with OnNextKey finished like Immediate.
finished_on_next_key(release, state) ==
    CASE release.kind = "FrameCount" ->
            IF state.tag = "Count" THEN state.count >= release.arg ELSE FALSE
      [] release.kind = "Duration" ->
            IF state.tag = "Timer" THEN state.finished ELSE FALSE
      [] OTHER -> TRUE

finished(release, state) ==
    CASE release.kind = "OnNextKey" -> FALSE
      [] release.kind = "FrameCount" ->
            IF state.tag = "Count" THEN state.count >= release.arg ELSE FALSE
      [] release.kind = "Duration" ->
            IF state.tag = "Timer" THEN state.finished ELSE FALSE
      [] release.kind = "Immediate" -> TRUE

reset(release, state) ==
    CASE release.kind \in {"FrameCount", "Immediate"} -> Count(0)
      [] release.kind = "Duration" ->
            IF state.tag = "Timer" THEN TimerReset(state) ELSE TimerNew(release.arg)
      [] OTHER -> state

(***************************************************************************)
(* The state.                                                              *)
(***************************************************************************)
VARIABLES
    policy,             \* Res<EmulationPolicy>
    policy_changed,     \* the change tick of the policy: written since the last frame
    detected,           \* Res<Detected>
    Emulate,            \* the marker resource is present
    release_key,        \* Res<ReleaseKey>
    release_key_state,  \* Local<ReleaseKeyState> of send_key_events_with_emulation
    modifiers,          \* Local<Modifiers> of send_key_events_with_emulation
    last_pressed,       \* Local<LastPress>: <<.0, .1>>
    key_repeat_queue,   \* Local<Vec<KeyboardInput>> of send_key_events_no_emulation
    keys,               \* the KeyEvents of the frame, delivered by the raw poll
    keyboard_input,     \* the KeyboardInput events sent in the last frame
    origin,             \* for each of them, the step of the code that sent it
    ran,                \* "polling", or the emission code path of the last frame
                        \* ("tick", "reset" when the scheduler is driven alone,
                        \* "delta", "flush" when the modifier tracking is)
    was_finished,       \* release_key.finished() after the last frame's tick()
    emulation,          \* policy.emulate_capabilities(&detected) of the last frame
    time_delta,         \* Time::delta() of the last frame
    quiet,              \* time since the last frame that did not return early
    idle_frames,        \* frames that returned early since that frame
    last_sent,          \* what that frame sent, while no key event has arrived since
    pressed,            \* the key codes whose latest KeyboardInput is Pressed
    last_policy,        \* the value of the policy when the last frame ran
    crossterm_events,   \* the CrosstermEvents that crossterm_event_system has sent this frame
    app_exit,           \* the AppExit events sent this frame, each with what sent it
    poll                \* crossterm_event_system: "running", or its result "ok" / "err"

vars == <<policy, policy_changed, detected, Emulate, release_key, release_key_state,
          modifiers, last_pressed, key_repeat_queue, keys, keyboard_input, origin,
          ran, was_finished, emulation, time_delta, quiet, idle_frames, last_sent, pressed,
          last_policy, crossterm_events, app_exit, poll>>

\* The state of crossterm_event_system and exit_on_error.
poll_vars == <<crossterm_events, app_exit, poll>>

\* A swap that leaves the buffers where they are.
swap_missing(last_press) == last_press

\* LastPress::swap
swap(last_press) == <<last_press[2], last_press[1]>>

\* All orders in which a HashSet may yield its elements.
Orders(S) == {s \in [1..Cardinality(S) -> S] : \A x \in S : \E i \in DOMAIN s : s[i] = x}

(***************************************************************************)
(* The systems of KeyboardPlugin.                                          *)
(***************************************************************************)
\* detect_capabilities with `=` in place of `|=`.
RECURSIVE detect_capabilities_assign(_, _)
detect_capabilities_assign(evs, d) ==
    IF evs = << >> THEN d
    ELSE LET key_event == Head(evs)
             d1 == IF key_event.code = "LeftShift" THEN MODIFIER ELSE d
             d2 == IF key_event.kind = "Release" THEN KEY_RELEASE ELSE d1
         IN  detect_capabilities_assign(Tail(evs), d2)

RECURSIVE detect_capabilities(_, _)
detect_capabilities(evs, d) ==
    IF evs = << >> THEN d
    ELSE LET key_event == Head(evs)
             d1 == IF key_event.code = "LeftShift" THEN d \cup MODIFIER ELSE d
             d2 == IF key_event.kind = "Release" THEN d1 \cup KEY_RELEASE ELSE d1
         IN  detect_capabilities(Tail(evs), d2)

\* A marker that is inserted on every frame.
reset_emulation_check_always(present, changed) == TRUE

\* A policy change that inserts no marker.
reset_emulation_check_skipped(present, changed) == present

\* reset_emulation_check, run_if(resource_changed::<EmulationPolicy>): the
\* marker is present after it when it was present or the policy has changed.
reset_emulation_check(present, changed) == present \/ changed

\* A check that never removes the marker.
check_for_emulation_never(p, d) == FALSE

\* check_for_emulation: TRUE when the marker is to be removed.
check_for_emulation(p, d) == emulate_capabilities(p, d) = {}

\* A test that finds every capability in every set.
contains_always(capability, flag) == TRUE

contains(capability, flag) == flag \subseteq capability

\* A drain that sends the stored event as it is.
Reciprocal_same(e) == e

Reciprocal(e) ==
    [e EXCEPT !.state = IF e.state = "Pressed" THEN "Released" ELSE "Pressed"]

\* The local state of send_key_events_with_emulation while it runs.
Acc(m, cur, next, out, org) ==
    [modifiers |-> m, cur |-> cur, next |-> next, out |-> out, origin |-> org]

\* The modifier events for the flags that differ between the masks.
ModifierDelta(mods, old) ==
    LET delta == Flags((mods \ old) \cup (old \ mods))
    IN  [i \in 1..Len(delta) |->
            modifier_to_bevy(crossterm_modifier_to_bevy_key(delta[i]),
                             IF delta[i] \subseteq mods THEN "Pressed" ELSE "Released")]

Tags(n, tag) == [i \in 1..n |-> tag]

\* The key event ahead of its modifier events.
LoopSent_key_first(sent, key) == key \o sent

\* What one iteration of the loop over keys.read() sends: the modifier events
\* of the delta, then the key event (none for a key that is being held down).
LoopSent(sent, key) == sent \o key

\* The body of `for key_event in keys.read()` for one key event.
EmulateKeyEvent(acc, key_event, emu) ==
    LET t == key_event_to_bevy(key_event) IN
    IF t = << >> THEN acc
    ELSE
      LET bevy_event == t[1].event
          mods == t[1].mods
          changed == contains(emu, MODIFIER) /\ mods # acc.modifiers
          sent == IF changed THEN ModifierDelta(mods, acc.modifiers) ELSE << >>
          a1 == [acc EXCEPT !.modifiers = IF changed THEN mods ELSE @]
          a2 == IF t[1].repeated THEN [a1 EXCEPT !.next = @ \cup {bevy_event}] ELSE a1
          \* last_pressed.0.take(): the key is being held down
          held == contains(emu, KEY_RELEASE) /\ bevy_event \in a2.cur
          key == IF held THEN << >> ELSE <<bevy_event>>
          a3 == IF contains(emu, KEY_RELEASE)
                THEN [a2 EXCEPT !.cur = @ \ {bevy_event}, !.next = @ \cup {bevy_event}]
                ELSE a2
      IN  [a3 EXCEPT !.out = @ \o LoopSent(sent, key),
                     !.origin = @ \o LoopSent(Tags(Len(sent), "modifier"),
                                              Tags(Len(key), "key"))]

RECURSIVE EmulateKeyEvents(_, _, _)
EmulateKeyEvents(acc, evs, emu) ==
    IF evs = << >> THEN acc
    ELSE EmulateKeyEvents(EmulateKeyEvent(acc, Head(evs), emu), Tail(evs), emu)

\* A flush that releases only the first held modifier.
ModifierFlush_first(mask) ==
    LET held == Flags(mask)
    IN  [i \in 1..(IF held = << >> THEN 0 ELSE 1) |->
            modifier_to_bevy(crossterm_modifier_to_bevy_key(held[i]), "Released")]

\* The releases of the held modifiers once the scheduler has finished.
ModifierFlush(mask) ==
    LET held == Flags(mask)
    IN  [i \in 1..Len(held) |->
            modifier_to_bevy(crossterm_modifier_to_bevy_key(held[i]), "Released")]

\* The early return with the negation of finished() dropped.
IdleReturn_when_finished(evs, fin) == evs = << >> /\ fin

\* The early return of send_key_events_with_emulation.
IdleReturn(evs, fin) == evs = << >> /\ ~fin

\* The drain of last_pressed.0 ahead of the loop over the key events.
Sent_drain_first(loop, drain, flush) == drain \o loop \o flush

\* The order in which the three parts of send_key_events_with_emulation send:
\* the loop over keys.read(), the drain of last_pressed.0, the modifier flush.
Sent(loop, drain, flush) == loop \o drain \o flush

send_key_events_with_emulation(evs, delta, det) ==
    LET state == tick(release_key, release_key_state, delta)
        fin == finished(release_key, state)
        emu == emulate_capabilities(policy, det)
    IN  /\ was_finished' = fin
        /\ UNCHANGED key_repeat_queue
        /\ IF IdleReturn(evs, fin)
           THEN /\ ran' = "idle"
                /\ release_key_state' = state
                /\ keyboard_input' = << >>
                /\ origin' = << >>
                /\ UNCHANGED <<modifiers, last_pressed>>
           ELSE LET acc == EmulateKeyEvents(
                               Acc(modifiers, last_pressed[1], last_pressed[2], << >>, << >>),
                               evs, emu)
                    flush == fin /\ contains(emu, MODIFIER)
                    released == IF flush THEN ModifierFlush(acc.modifiers) ELSE << >>
                IN  \E drained \in Orders(acc.cur) :
                      /\ ran' = "emulation"
                      /\ keyboard_input' =
                            Sent(acc.out,
                                 [i \in 1..Len(drained) |-> Reciprocal(drained[i])],
                                 released)
                      /\ origin' = Sent(acc.origin, Tags(Len(drained), "reciprocal"),
                                        Tags(Len(released), "flush"))
                      /\ modifiers' = IF flush THEN {} ELSE acc.modifiers
                      \* drain() has emptied .0, then swap() exchanges .0 and .1
                      /\ last_pressed' =
                            swap(<<acc.cur \ {drained[i] : i \in DOMAIN drained}, acc.next>>)
                      /\ release_key_state' = reset(release_key, state)

\* A pass-through that queues no press for a repeat.
PassThrough_forgets_repeats(acc, evs) ==
    LET t == Translated(evs) IN
    [out |-> acc.out \o [i \in DOMAIN t |-> t[i].event], queue |-> acc.queue]

\* What send_key_events_no_emulation sends and queues for one key event.
RECURSIVE PassThrough(_, _)
PassThrough(acc, evs) ==
    IF evs = << >> THEN acc
    ELSE LET t == key_event_to_bevy(Head(evs)) IN
         IF t = << >> THEN PassThrough(acc, Tail(evs))
         ELSE PassThrough(
                [out |-> Append(acc.out, t[1].event),
                 queue |-> IF t[1].repeated
                           THEN Append(acc.queue, [t[1].event EXCEPT !.state = "Pressed"])
                           ELSE acc.queue],
                Tail(evs))

send_key_events_no_emulation(evs) ==
    LET acc == PassThrough([out |-> key_repeat_queue, queue |-> << >>], evs)
    IN  /\ ran' = "no_emulation"
        /\ was_finished' = FALSE
        /\ keyboard_input' = acc.out
        /\ origin' = Tags(Len(key_repeat_queue), "queue")
                        \o Tags(Len(acc.out) - Len(key_repeat_queue), "key")
        /\ key_repeat_queue' = acc.queue
        /\ UNCHANGED <<release_key_state, modifiers, last_pressed>>

\* The key codes reported pressed after the events of out, as a consumer that
\* keeps one boolean for each key code sees them.
RECURSIVE PressedAfter(_, _)
PressedAfter(down, out) ==
    IF out = << >> THEN down
    ELSE PressedAfter(IF Head(out).state = "Pressed"
                      THEN down \cup {Head(out).key_code}
                      ELSE down \ {Head(out).key_code},
                      Tail(out))

Min(a, b) == IF a < b THEN a ELSE b

(***************************************************************************)
(* One frame: the raw poll has delivered evs and Time::delta() is delta.   *)
(***************************************************************************)
Frame(evs, delta) ==
    LET \* Pre: reset_emulation_check, run_if(resource_changed::<EmulationPolicy>)
        marker == reset_emulation_check(Emulate, policy_changed)
        \* CheckEmulation: (detect_capabilities, check_for_emulation).chain(),
        \* run_if(resource_exists::<Emulate>)
        det == IF marker THEN detect_capabilities(evs, detected) ELSE detected
        present == marker /\ ~check_for_emulation(policy, det)
    IN  /\ keys' = evs
        /\ policy_changed' = FALSE
        /\ last_policy' = policy
        /\ UNCHANGED poll_vars
        /\ detected' = det
        /\ Emulate' = present
        /\ UNCHANGED <<policy, release_key>>
        \* EmitBevy
        /\ IF present
           THEN send_key_events_with_emulation(evs, delta, det)
           ELSE send_key_events_no_emulation(evs)
        /\ emulation' = emulate_capabilities(policy, det)
        /\ time_delta' = delta
        /\ quiet' = IF ran' = "idle" THEN Min(quiet + delta, MaxDuration) ELSE 0
        /\ idle_frames' = IF ran' = "idle" THEN Min(idle_frames + 1, MaxFrameCount) ELSE 0
        /\ last_sent' = IF ran' = "idle" THEN last_sent ELSE keyboard_input'
        /\ pressed' = PressedAfter(pressed, keyboard_input')

\* The key events the raw poll has delivered for the frame that is starting.
Delivered == IF ran = "polling" THEN keys ELSE << >>

\* crossterm_event_system reads one more key event and sends it as a KeyEvent.
PollFrom(events) ==
    \E e \in events :
        /\ Len(Delivered) < MaxEvents
        /\ keys' = Append(Delivered, e)
        /\ ran' = "polling"
        /\ keyboard_input' = << >>
        /\ origin' = << >>
        /\ was_finished' = FALSE
        /\ UNCHANGED <<last_policy, policy, policy_changed, detected, Emulate, release_key,
                       release_key_state, modifiers, last_pressed, key_repeat_queue,
                       emulation, time_delta, quiet, idle_frames, pressed>>
        /\ last_sent' = << >>
        /\ UNCHANGED poll_vars

Poll == PollFrom(RawEvents)

\* The raw poll of a terminal that reports key presses only.
PressEvents == {e \in RawEvents : e.kind = "Press"}
PollPress == PollFrom(PressEvents)

\* The systems of KeyboardPlugin run on the delivered key events.
Update == \E delta \in Deltas : Frame(Delivered, delta)

\* What a write of a resource between two frames leaves of the last frame.
BetweenFrames ==
    /\ ran # "polling"
    /\ keys' = << >>
    /\ keyboard_input' = << >>
    /\ origin' = << >>
    /\ ran' = "none"
    /\ was_finished' = FALSE
    /\ last_sent' = << >>
    /\ UNCHANGED <<emulation, time_delta, quiet, idle_frames, pressed>>
    /\ UNCHANGED poll_vars

\* A system of the application assigns the policy (examples/bevy_keys.rs hotkeys).
SetPolicy ==
    \E p \in Policies :
        /\ BetweenFrames
        /\ policy' = p
        /\ policy_changed' = TRUE
        /\ UNCHANGED <<last_policy, detected, Emulate, release_key, release_key_state, modifiers,
                       last_pressed, key_repeat_queue>>

SetReleaseKey ==
    \E r \in Strategies :
        /\ BetweenFrames
        /\ r # release_key
        /\ release_key' = r
        /\ UNCHANGED <<last_policy, policy, policy_changed, detected, Emulate, release_key_state,
                       modifiers, last_pressed, key_repeat_queue>>

Init ==
    /\ policy \in Policies
    /\ policy_changed = TRUE
    /\ last_policy = policy
    /\ crossterm_events = << >>
    /\ app_exit = << >>
    /\ poll = "running"
    /\ detected = NONE
    /\ Emulate = TRUE
    /\ release_key \in Strategies
    /\ release_key_state = StateNone
    /\ modifiers = {}
    /\ last_pressed = <<{}, {}>>
    /\ key_repeat_queue = << >>
    /\ keys = << >>
    /\ keyboard_input = << >>
    /\ origin = << >>
    /\ ran = "none"
    /\ was_finished = FALSE
    /\ emulation = NONE
    /\ time_delta = 0
    /\ idle_frames = 0
    /\ last_sent = << >>
    /\ quiet = 0
    /\ pressed = {}

Next == Poll \/ Update

Spec == Init /\ [][Next]_vars

\* The raw poll of a terminal session that types one key and one modifier.
PolicyEvents ==
    { KeyEvent("a", {}, "Press"), KeyEvent("a", {}, "Release"),
      KeyEvent("LeftShift", {"SHIFT"}, "Press") }
PollPolicy == PollFrom(PolicyEvents)

\* The application writes the policy between frames.
NextPolicy == PollPolicy \/ Update \/ SetPolicy
SpecPolicy == Init /\ [][NextPolicy]_vars

\* The modifier tracking driven alone: the delta loop for a key event of any
\* mask, and the flush loop, on any stored mask.
ModifierUnchanged ==
    /\ was_finished' = FALSE
    /\ UNCHANGED poll_vars
    /\ UNCHANGED <<last_policy, policy, policy_changed, detected, Emulate, release_key,
                   release_key_state, last_pressed, key_repeat_queue, keys, emulation,
                   time_delta, quiet, idle_frames, last_sent, pressed>>

DeltaLoop ==
    \E mods \in SUBSET KeyModifiers :
        /\ mods # modifiers
        /\ keyboard_input' = ModifierDelta(mods, modifiers)
        /\ origin' = Tags(Len(keyboard_input'), "modifier")
        /\ modifiers' = mods
        /\ ran' = "delta"
        /\ ModifierUnchanged

FlushLoop ==
    /\ keyboard_input' = ModifierFlush(modifiers)
    /\ origin' = Tags(Len(keyboard_input'), "flush")
    /\ modifiers' = {}
    /\ ran' = "flush"
    /\ ModifierUnchanged

InitModifiers == Init /\ policy = Automatic /\ release_key = Immediate
NextModifiers == DeltaLoop \/ FlushLoop
SpecModifiers == InitModifiers /\ [][NextModifiers]_vars

\* The release scheduler driven alone: ReleaseKey::tick and ReleaseKey::reset
\* called in any order on the state, under the configured strategy.
SchedulerUnchanged ==
    /\ keyboard_input' = << >>
    /\ UNCHANGED poll_vars
    /\ origin' = << >>
    /\ UNCHANGED <<last_policy, policy, policy_changed, detected, Emulate, release_key, modifiers,
                   last_pressed, key_repeat_queue, keys, emulation, last_sent, pressed>>

SchedulerTick ==
    \E delta \in Deltas :
        /\ release_key_state.count <= MaxFrameCount
        /\ release_key_state' = tick(release_key, release_key_state, delta)
        /\ was_finished' = finished(release_key, release_key_state')
        /\ ran' = "tick"
        /\ time_delta' = delta
        /\ quiet' = Min(quiet + delta, MaxDuration)
        /\ idle_frames' = Min(idle_frames + 1, MaxFrameCount)
        /\ SchedulerUnchanged

SchedulerReset ==
    /\ release_key_state' = reset(release_key, release_key_state)
    /\ was_finished' = finished(release_key, release_key_state')
    /\ ran' = "reset"
    /\ time_delta' = 0
    /\ quiet' = 0
    /\ idle_frames' = 0
    /\ SchedulerUnchanged

NextScheduler == SchedulerTick \/ SchedulerReset
SpecScheduler == Init /\ [][NextScheduler]_vars

\* A terminal session that types a key with shift and control held and the
\* shift key itself, with the frames of the schedule running for ever.
ShiftEvents ==
    { KeyEvent("b", {"SHIFT", "CONTROL"}, "Press"),
      KeyEvent("LeftShift", {"SHIFT"}, "Press") }
PollShift == PollFrom(ShiftEvents)
NextShift == PollShift \/ Update
SpecShift == Init /\ [][NextShift]_vars /\ WF_vars(Update)

\* The release scheduler driven alone while the application writes ReleaseKey.
NextReconfigure == SchedulerTick \/ SchedulerReset \/ SetReleaseKey
SpecReconfigure == Init /\ [][NextReconfigure]_vars

(***************************************************************************)
(* crossterm_event_system piped into exit_on_error, driven alone.          *)
(***************************************************************************)
\* The condition on a key event that sends AppExit, without the test of the kind.
is_ctrl_c_any_kind(event) == event.modifiers = {"CONTROL"} /\ event.code = "c"

\* The condition of crossterm_event_system on a key event that sends AppExit.
is_ctrl_c(event) ==
    event.kind = "Press" /\ event.modifiers = {"CONTROL"} /\ event.code = "c"

\* crossterm::event::Event: Key(event) or one of the other variants.
Key(event) == [type |-> "Key", key |-> event]
OtherEvent(type) == [type |-> type, key |-> KeyEvent("", {}, "")]

\* The events the terminal delivers to the raw poll in the model.
TerminalEvents ==
    { Key(KeyEvent("c", {"CONTROL"}, "Press")),
      Key(KeyEvent("c", {"CONTROL", "SHIFT"}, "Press")),
      Key(KeyEvent("c", {"CONTROL"}, "Release")),
      Key(KeyEvent("c", {}, "Press")),
      Key(KeyEvent("a", {"CONTROL"}, "Press")),
      Key(KeyEvent("a", {}, "Press")),
      OtherEvent("FocusLost"), OtherEvent("Resize") }

\* An error handler that sends no AppExit.
exit_on_error_ignores(result, exit) == exit

\* exit_on_error: AppExit is sent for an Err result.
exit_on_error(result, exit) == IF result = "err" THEN Append(exit, "error") ELSE exit

PollUnchanged ==
    UNCHANGED <<policy, policy_changed, last_policy, detected, Emulate, release_key,
                release_key_state, modifiers, last_pressed, key_repeat_queue,
                keyboard_input, origin, was_finished, emulation, time_delta, quiet,
                idle_frames, last_sent, pressed>>

\* One iteration of the loop: poll() is Ok(true) and read() is Ok(event).
ReadEvent ==
    \E event \in TerminalEvents :
        /\ poll = "running"
        /\ Len(crossterm_events) < MaxEvents
        /\ app_exit' = IF event.type = "Key" /\ is_ctrl_c(event.key)
                       THEN Append(app_exit, "ctrl_c") ELSE app_exit
        /\ keys' = IF event.type = "Key" THEN Append(keys, event.key) ELSE keys
        /\ crossterm_events' = Append(crossterm_events, event)
        /\ ran' = "polling"
        /\ UNCHANGED poll
        /\ PollUnchanged

\* poll() is Ok(false): the loop ends, the system returns Ok(()).
PollEmpty ==
    /\ poll = "running"
    /\ poll' = "ok"
    /\ app_exit' = exit_on_error("ok", app_exit)
    /\ UNCHANGED <<keys, crossterm_events, ran>>
    /\ PollUnchanged

\* poll() or read() is Err: `?` returns it from the system.
PollFails ==
    /\ poll = "running"
    /\ poll' = "err"
    /\ app_exit' = exit_on_error("err", app_exit)
    /\ UNCHANGED <<keys, crossterm_events, ran>>
    /\ PollUnchanged

\* The next frame starts: the events of the last one have been consumed.
NextFrame ==
    /\ poll # "running"
    /\ poll' = "running"
    /\ crossterm_events' = << >>
    /\ keys' = << >>
    /\ app_exit' = << >>
    /\ ran' = "none"
    /\ PollUnchanged

NextPoll == ReadEvent \/ PollEmpty \/ PollFails \/ NextFrame
SpecPoll == Init /\ [][NextPoll]_vars

\* The frames that ran the systems: the values of ran after Update.
EmissionPaths == {"idle", "emulation", "no_emulation"}
\* The paths of send_key_events_with_emulation.
EmulationPaths == {"idle", "emulation"}

\* A terminal that reports key presses only.
NextPress == PollPress \/ Update
SpecPress == Init /\ [][NextPress]_vars

(***************************************************************************)
(* Properties.                                                             *)
(***************************************************************************)
KeyCodes == {"KeyA", "KeyB", "ShiftLeft", "ControlLeft"}

\* The events of out for key code k alternate pressed, released, ..., given
\* that k was reported pressed (down) or not before them.
RECURSIVE AlternatesFor(_, _, _)
AlternatesFor(k, down, out) ==
    IF out = << >> THEN TRUE
    ELSE IF Head(out).key_code # k THEN AlternatesFor(k, down, Tail(out))
    ELSE /\ (Head(out).state = "Pressed") # down
         /\ AlternatesFor(k, Head(out).state = "Pressed", Tail(out))

Alternates(down, out) == \A k \in KeyCodes : AlternatesFor(k, k \in down, out)

\* C1: exactly-once release.  On a terminal that reports presses only
\* (SpecPress), on every frame with KEY_RELEASE in the effective emulation
\* set, each press sent for a key is followed by one release of that key
\* before any further press of the key, and no release is sent for a key
\* that is not reported pressed.
C1_ExactlyOnceRelease ==
    [][(ran' \in EmissionPaths /\ contains(emulation', KEY_RELEASE))
          => Alternates(pressed, keyboard_input')]_vars

\* C2: per-key alternation.  Under the Automatic policy the events sent for
\* each key alternate pressed, released, pressed, ... starting with pressed,
\* whatever raw events (press, repeat, release) the frames deliver.
C2_Alternation ==
    [][(ran' \in EmissionPaths /\ policy = Automatic)
          => Alternates(pressed, keyboard_input')]_vars

Synthesized(i) == origin[i] = "reciprocal"

\* C3: no double emulation.  Under the Automatic policy, on a frame at whose
\* emission KEY_RELEASE is detected, no key release is synthesized.
C3_NoDoubleEmulation ==
    (ran \in EmissionPaths /\ policy = Automatic /\ contains(detected, KEY_RELEASE))
        => \A i \in DOMAIN keyboard_input :
              ~(Synthesized(i) /\ keyboard_input[i].state = "Released")

\* C4: for every policy, the effective emulation set of a frame contains no
\* detected capability.
C4_DetectedNeverEmulated ==
    ran \in EmissionPaths => emulation \cap detected = {}

\* C5: under the Automatic policy the effective emulation set is exactly ALL
\* minus detected (so it has no bit outside KEY_RELEASE and MODIFIER).
C5_AutomaticComplement ==
    (ran \in EmissionPaths /\ policy = Automatic) => emulation = ALL \ detected

C5_Witness ==
    /\ ran \in EmissionPaths /\ policy = Automatic
    /\ detected = KEY_RELEASE /\ emulation = MODIFIER

\* C6: detected capabilities are monotone.  A frame that does not follow a
\* write of the policy never clears a detected bit.
C6_DetectedMonotone ==
    [][(ran' \in EmissionPaths /\ ~policy_changed) => detected \subseteq detected']_vars

C6_Witness ==
    /\ ran \in EmissionPaths /\ detected = ALL
    /\ \A i \in DOMAIN keys : keys[i].kind # "Release"

\* C7: after a write of the policy, the detected capabilities are reset to
\* NONE before the key events of the next frame are processed: after that
\* frame, detected holds what the frame's own key events show and no more.
C7_PolicyChangeResets ==
    [][(policy_changed /\ ran' \in EmissionPaths)
          => detected' = detect_capabilities(keys', NONE)]_vars

\* C8: every key event delivered to a frame is examined by the detector,
\* whatever the policy and whether or not the marker is present: after the
\* frame a modifier key code has set MODIFIER and a release has set
\* KEY_RELEASE, for unmappable key codes too.
C8_EveryEventExamined ==
    ran \in EmissionPaths
        => \A i \in DOMAIN keys :
              /\ keys[i].code = "LeftShift" => contains(detected, MODIFIER)
              /\ keys[i].kind = "Release" => contains(detected, KEY_RELEASE)

\* C9: idle frame.  A frame of the emulation path without key events on
\* which the release scheduler, once ticked, is not finished sends nothing.
C9_IdleTick ==
    (ran \in EmulationPaths /\ keys = << >> /\ ~was_finished) => keyboard_input = << >>

C9_Witness ==
    /\ ran = "idle" /\ keys = << >> /\ ~was_finished
    /\ last_pressed[1] # {} /\ modifiers # {}

PressA == KeyboardInput("KeyA", "a", "Pressed")
ReleaseA == KeyboardInput("KeyA", "a", "Released")
Durations == {Duration(d) : d \in 1..MaxDuration}

\* The frame follows, with no key event in between, a frame that sent
\* exactly [press A], under Duration(d) with KEY_RELEASE emulated.
AfterPressA ==
    /\ ran \in EmulationPaths /\ ran' \in EmulationPaths /\ keys' = << >>
    /\ release_key \in Durations
    /\ contains(emulation, KEY_RELEASE) /\ contains(emulation', KEY_RELEASE)
    /\ last_sent = <<PressA>>

\* What the frame is to send: nothing while the time elapsed since the press
\* is below d, [release A] when it reaches d.
DurationOutcome ==
    keyboard_input' = IF quiet + time_delta' < release_key.arg THEN << >> ELSE <<ReleaseA>>

C11_OnNextKey ==
    (ran \in EmissionPaths /\ release_key = OnNextKey /\ keys = << >>)
        => keyboard_input = << >>

\* C11 amended: under OnNextKey the scheduler is never finished and no frame
\* of the emulation path (the marker is present) without key events sends any
\* event; the held keys stay held until a frame with a key event.
C11_OnNextKeyEmulation ==
    (ran \in EmulationPaths /\ release_key = OnNextKey /\ keys = << >>)
        => /\ ~was_finished
           /\ ran = "idle"
           /\ keyboard_input = << >>

C11_Witness ==
    /\ ran = "idle" /\ release_key = OnNextKey /\ keys = << >>
    /\ quiet = MaxDuration /\ last_pressed[1] = {PressA}

PressB == KeyboardInput("KeyB", "b", "Pressed")

\* C12: release before press.  With KEY_RELEASE emulated, when key A is held
\* and a press of another key B arrives on a later frame, that frame sends
\* [release A, press B] in this order.
C12_ReleaseBeforePress ==
    [][(/\ ran' = "emulation" /\ contains(emulation', KEY_RELEASE)
        /\ last_pressed[1] = {PressA} /\ modifiers = {}
        /\ keys' = <<KeyEvent("b", {}, "Press")>>)
          => keyboard_input' = <<ReleaseA, PressB>>]_vars

RepeatA == KeyEvent("a", {}, "Repeat")

\* The frame runs the emulation path on the single key event [repeat A] with
\* KEY_RELEASE emulated and no modifier held.
RepeatFrame ==
    /\ ran' = "emulation" /\ contains(emulation', KEY_RELEASE)
    /\ modifiers = {} /\ keys' = <<RepeatA>>

\* C13: repeat handling.  With KEY_RELEASE emulated and nothing held, a frame
\* with [repeat A] sends [press A]; with A held from such a frame, a frame
\* with [repeat A] sends [release A, press A].
C13_RepeatHandling ==
    [][/\ (RepeatFrame /\ last_pressed[1] = {}) => keyboard_input' = <<PressA>>
       /\ (RepeatFrame /\ last_pressed[1] # {}
                       /\ \A e \in last_pressed[1] : e.key_code = "KeyA")
             => keyboard_input' = <<ReleaseA, PressA>>]_vars

\* The modifier masks of the key events that key_event_to_bevy translates.
RECURSIVE TranslatedMasks(_)
TranslatedMasks(evs) ==
    IF evs = << >> THEN << >>
    ELSE LET t == key_event_to_bevy(Head(evs))
         IN  (IF t = << >> THEN << >> ELSE <<t[1].mods>>) \o TranslatedMasks(Tail(evs))

\* How often flag f changes to the membership given by set along the masks,
\* starting from the stored mask old.
RECURSIVE Changes(_, _, _, _)
Changes(f, set, old, masks) ==
    IF masks = << >> THEN 0
    ELSE (IF (f \in Head(masks)) = set /\ (f \in old) # set THEN 1 ELSE 0)
         + Changes(f, set, Head(masks), Tail(masks))

\* The synthetic modifier events among the events sent: those of the delta
\* loop and of the flush loop.
SyntheticModifier(out, org, f, state) ==
    {i \in DOMAIN out :
        /\ org[i] \in {"modifier", "flush"}
        /\ out[i] = modifier_to_bevy(crossterm_modifier_to_bevy_key({f}), state)}

\* C14: modifier delta.  With MODIFIER emulated, a frame of the emulation
\* path sends for each translated key event whose mask differs from the stored
\* mask one synthetic modifier event for each changed flag (pressed when newly
\* set, released when newly cleared), no other synthetic modifier event, and
\* leaves the mask of its last key event stored: key events with the masks
\* {}->{shift}->{shift,ctrl}->{} on three frames send shift-press, ctrl-press,
\* shift-release and ctrl-release once each.
C14_ModifierDelta ==
    [][(/\ ran' = "emulation" /\ contains(emulation', MODIFIER)
        /\ TranslatedMasks(keys') # << >>)
          => LET masks == TranslatedMasks(keys') IN
             /\ \A f \in KeyModifiers :
                   /\ Cardinality(SyntheticModifier(keyboard_input', origin', f, "Pressed"))
                         = Changes(f, TRUE, modifiers, masks)
                   /\ Cardinality(SyntheticModifier(keyboard_input', origin', f, "Released"))
                         = Changes(f, FALSE, modifiers, masks)
             /\ modifiers' = masks[Len(masks)]]_vars

\* C15: timed modifier flush.  With MODIFIER emulated, a frame without key
\* events on which the scheduler is finished sends one release for every
\* modifier of the stored mask, no other modifier event, and leaves the stored
\* mask empty.
C15_ModifierFlush ==
    [][(/\ ran' = "emulation" /\ contains(emulation', MODIFIER)
        /\ keys' = << >> /\ was_finished')
          => /\ \A f \in KeyModifiers :
                   /\ Cardinality(SyntheticModifier(keyboard_input', origin', f, "Released"))
                         = IF f \in modifiers THEN 1 ELSE 0
                   /\ SyntheticModifier(keyboard_input', origin', f, "Pressed") = {}
             /\ modifiers' = {}]_vars

C15_Witness ==
    /\ ran = "emulation" /\ contains(emulation, MODIFIER) /\ keys = << >> /\ was_finished
    /\ modifiers = {}
    /\ Cardinality({i \in DOMAIN origin : origin[i] = "flush"}) = 2

FrameCounts == {FrameCount(n) : n \in 1..MaxFrameCount}

\* The frame follows, with no key event in between, the frame that sent
\* last_sent, with KEY_RELEASE emulated then and now.
NoEventsSince ==
    /\ ran \in EmulationPaths /\ ran' \in EmulationPaths /\ keys' = << >>
    /\ contains(emulation, KEY_RELEASE) /\ contains(emulation', KEY_RELEASE)

\* That frame sent a press of key code k and left k reported pressed.
PressSent(k) ==
    /\ k \in pressed
    /\ \E i \in DOMAIN last_sent :
          last_sent[i].key_code = k /\ last_sent[i].state = "Pressed"

\* The frame sends a release of key code k.
Releases(k) ==
    \E i \in DOMAIN keyboard_input' :
        keyboard_input'[i].key_code = k /\ keyboard_input'[i].state = "Released"

\* C16: FrameCount strategy.  Under FrameCount(n), n >= 1, with KEY_RELEASE
\* emulated, a key whose press is sent on frame t and that is followed by no
\* key events is released on frame t+n, and the frames t+1 .. t+n-1 send
\* nothing.
C16_FrameCount ==
    [][\A k \in KeyCodes :
         (NoEventsSince /\ release_key \in FrameCounts /\ PressSent(k))
            => IF idle_frames + 1 < release_key.arg
               THEN keyboard_input' = << >>
               ELSE Releases(k)]_vars

\* C17: Immediate strategy.  Under Immediate with KEY_RELEASE emulated, a key
\* whose press is sent on frame t and that receives no key event on frame t+1
\* is released on frame t+1.
C17_Immediate ==
    [][\A k \in KeyCodes :
         (NoEventsSince /\ release_key = Immediate /\ PressSent(k)) => Releases(k)]_vars

\* The identities that the loop over the frame's key events inserts into the
\* next-frame set: those of the repeats, and with KEY_RELEASE emulated those
\* of all translated key events.
Inserted(evs, emu) ==
    {key_event_to_bevy(evs[i])[1].event :
        i \in {j \in DOMAIN evs :
                  /\ key_event_to_bevy(evs[j]) # << >>
                  /\ \/ key_event_to_bevy(evs[j])[1].repeated
                     \/ contains(emu, KEY_RELEASE)}}

\* C18: double buffer.  After every frame the next-frame held set is empty,
\* and after every frame of the emulation path that did not return early the
\* current-frame held set holds exactly the identities inserted for that
\* frame's key events: no identity of the former current-frame set is kept
\* without a matching key event of the frame.
C18_DoubleBuffer ==
    /\ last_pressed[2] = {}
    /\ ran = "emulation" => last_pressed[1] = Inserted(keys, emulation)

C18_Witness ==
    /\ ran = "emulation" /\ Len(keys) = 2
    /\ last_pressed = <<{PressA, PressB}, {}>>
    /\ keyboard_input = <<PressA>>

\* C19: scheduler re-arm.  For every strategy, with the configuration fixed,
\* a tick never takes finished() from true back to false: between two resets
\* finished() turns from false to true at most once and only a reset re-arms
\* the scheduler.
C19_Rearm ==
    [][(ran' = "tick" /\ finished(release_key, release_key_state))
          => finished(release_key, release_key_state')]_vars

C19_Witness ==
    /\ ran = "tick" /\ release_key = Duration(1)
    /\ quiet = MaxDuration /\ idle_frames = MaxFrameCount
    /\ release_key_state.finished /\ was_finished

\* C20: no frame aborts.  For every stored mask and every event mask over the
\* six defined modifiers, each flag that the delta loop and the flush loop
\* hand to crossterm_modifier_to_bevy_key is one defined flag: neither its
\* expect, its match, its assert nor the match of modifier_to_bevy panics.
C20_NoPanic ==
    \A i \in DOMAIN keyboard_input :
        /\ keyboard_input[i] # Panic
        /\ keyboard_input[i].logical_key # "panic"

C20_Witness ==
    /\ ran = "delta" /\ modifiers = {"SHIFT", "ALT", "HYPER"}
    /\ Len(keyboard_input) = Cardinality(KeyModifiers)

\* The key events evs hold a press for the held key e, and nothing but presses
\* for its key code.
OnlyPressesOf(e, evs) ==
    LET t == Translated(evs) IN
    /\ \E i \in DOMAIN t : t[i].event = e
    /\ \A i \in DOMAIN t :
          t[i].event.key_code = e.key_code => t[i].event = e /\ ~t[i].repeated

\* The events among out that the key loop or the drain sent for key code k.
KeyEventsOf(k, out, org) ==
    {i \in DOMAIN out : out[i].key_code = k /\ org[i] \in {"key", "reciprocal"}}

\* C21: still-held keys are silent.  With KEY_RELEASE emulated, a key held
\* (pressed) in last_pressed.0 at the start of a frame that receives one or
\* more press events on that frame has no press and no release sent for it on
\* that frame, and is held in last_pressed.0 for the next frame, whatever the
\* number of its press events and whether or not the scheduler is finished.
C21_StillHeldSilent ==
    [][\A e \in last_pressed[1] :
          (/\ ran' = "emulation" /\ contains(emulation', KEY_RELEASE)
           /\ e.state = "Pressed" /\ OnlyPressesOf(e, keys'))
             => /\ KeyEventsOf(e.key_code, keyboard_input', origin') = {}
                /\ e \in last_pressed'[1]]_vars

\* The last of the key events evs for key code k is of the release kind.
EndsWithRelease(k, evs) ==
    LET t == SelectSeq(Translated(evs), LAMBDA x : x.event.key_code = k) IN
    /\ t # << >>
    /\ t[Len(t)].event.state = "Released" /\ ~t[Len(t)].repeated

\* The events among out that report key code k pressed.
Presses(k, out) == {i \in DOMAIN out : out[i].key_code = k /\ out[i].state = "Pressed"}

\* C22: native release is final.  When the key events for a key end with a
\* release (after any presses and repeats of the key), the frame of the release
\* leaves the key reported released, and the next frame, which has no key
\* event, sends no press of the key: in send_key_events_with_emulation and in
\* send_key_events_no_emulation.
C22_NativeReleaseFinal ==
    [][\A k \in KeyCodes :
          /\ (ran' \in EmissionPaths /\ EndsWithRelease(k, keys')) => k \notin pressed'
          /\ (ran \in EmissionPaths /\ ran' \in EmissionPaths /\ EndsWithRelease(k, keys))
                => Presses(k, keyboard_input') = {}]_vars

Unrefreshed(e, evs) ==
    LET t == Translated(evs) IN \A i \in DOMAIN t : t[i].event # e

\* The events that the drain sent with key code k and state st.
DrainSent(k, st, out, org) ==
    {i \in DOMAIN out :
        org[i] = "reciprocal" /\ out[i].key_code = k /\ out[i].state = st}

\* C24: unrefreshed keys are flushed on every frame that does not return
\* early.  With KEY_RELEASE emulated, on a frame with a key event or a finished
\* scheduler, each identity of last_pressed.0 that no key event of the frame
\* matches has exactly one reciprocal event sent (released for a stored press,
\* pressed for the stored release of a repeat) and is held no longer.
C24_UnrefreshedFlushed ==
    [][(/\ ran' \in EmulationPaths /\ contains(emulation', KEY_RELEASE)
        /\ (keys' # << >> \/ was_finished'))
          => \A e \in last_pressed[1] :
                Unrefreshed(e, keys')
                  => /\ Cardinality(DrainSent(e.key_code,
                                              IF e.state = "Pressed" THEN "Released"
                                                                     ELSE "Pressed",
                                              keyboard_input', origin')) = 1
                     /\ e \notin last_pressed'[1] \cup last_pressed'[2]]_vars

C24_Witness ==
    /\ ran = "emulation" /\ contains(emulation, KEY_RELEASE)
    /\ DrainSent("KeyA", "Pressed", keyboard_input, origin) # {}
    /\ DrainSent("KeyB", "Released", keyboard_input, origin) # {}
    /\ last_pressed = <<{}, {}>>

\* C25: the timed modifier flush happens only after a quiet period.  Under
\* every release strategy, a frame that has key events sends no event of the
\* modifier flush, so no modifier that the delta step presses for the frame's
\* key events is released by the flush of the same frame.
C25_FlushOnlyWhenQuiet ==
    (ran = "emulation" /\ keys # << >>)
        => /\ \A i \in DOMAIN origin : origin[i] # "flush"
           /\ \A i, j \in DOMAIN origin :
                 (origin[i] = "modifier" /\ keyboard_input[i].state = "Pressed"
                      /\ origin[j] = "flush")
                    => keyboard_input[j].key_code # keyboard_input[i].key_code

\* The number of flags in which the masks differ.
Differ(mods, old) == Cardinality((mods \ old) \cup (old \ mods))

\* out (sent by org) starts with one block for each translated key event of t:
\* the synthetic modifier events of the flags in which its mask differs from
\* the stored mask old, then at most its own key event; only events of the
\* drain and of the flush follow the blocks.
RECURSIVE Blocks(_, _, _, _)
Blocks(out, org, t, old) ==
    IF t = << >>
    THEN \A i \in DOMAIN org : org[i] \in {"reciprocal", "flush"}
    ELSE LET n == Differ(t[1].mods, old) IN
         /\ Len(out) >= n
         /\ \A i \in 1..n :
               /\ org[i] = "modifier"
               /\ \E f \in (t[1].mods \ old) \cup (old \ t[1].mods) :
                     out[i] = modifier_to_bevy(
                                  crossterm_modifier_to_bevy_key({f}),
                                  IF f \in t[1].mods THEN "Pressed" ELSE "Released")
         /\ \/ /\ Len(out) > n /\ org[n + 1] = "key" /\ out[n + 1] = t[1].event
               /\ Blocks(SubSeq(out, n + 2, Len(out)), SubSeq(org, n + 2, Len(org)),
                         Tail(t), t[1].mods)
            \/ Blocks(SubSeq(out, n + 1, Len(out)), SubSeq(org, n + 1, Len(org)),
                      Tail(t), t[1].mods)

\* C26: modifier-before-key ordering.  With MODIFIER emulated, the synthetic
\* modifier events of every key event that changes the stored mask are sent
\* before the key event's own press or release and after the events of all
\* earlier key events of the frame.
C26_ModifierBeforeKey ==
    [][(ran' = "emulation" /\ contains(emulation', MODIFIER))
          => Blocks(keyboard_input', origin', Translated(keys'), modifiers)]_vars

C26_Witness ==
    /\ ran = "emulation" /\ contains(emulation, MODIFIER)
    /\ keys = <<KeyEvent("a", {"SHIFT"}, "Press"), KeyEvent("b", {"SHIFT", "CONTROL"}, "Press")>>
    /\ Len(origin) >= 4
    /\ SubSeq(origin, 1, 4) = <<"modifier", "key", "modifier", "key">>

\* C27: idle frames change nothing but the countdown.  A frame with no key
\* event and an unfinished scheduler leaves last_pressed.0, last_pressed.1, the
\* stored modifier mask and the detected capabilities as they are and does not
\* reset the scheduler: a count is one higher and a timer has the frame's delta
\* more elapsed than before the frame.
C27_IdleFrame ==
    [][ran' = "idle"
          => /\ keys' = << >> /\ ~was_finished'
             /\ last_pressed' = last_pressed
             /\ modifiers' = modifiers
             /\ detected' = detected
             /\ (release_key.kind = "FrameCount" /\ release_key_state.tag = "Count")
                   => release_key_state' = Count(release_key_state.count + 1)
             /\ (release_key.kind = "Duration" /\ release_key_state.tag = "Timer")
                   => /\ release_key_state'.tag = "Timer"
                      /\ release_key_state'.elapsed = release_key_state.elapsed + time_delta'
                      /\ release_key_state'.duration = release_key_state.duration
             /\ release_key.kind = "OnNextKey" => release_key_state' = release_key_state]_vars

C27_Witness ==
    /\ ran = "idle" /\ keys = << >> /\ ~was_finished
    /\ release_key_state.tag = "Timer" /\ release_key_state.elapsed = 1
    /\ last_pressed[1] # {} /\ modifiers # {}

\* What a frame of send_key_events_with_emulation with no key event, delta
\* and the effective emulation set emu sends and leaves, for one order of the
\* drain: the events are compared as a sequence up to that order.
QuietFrame(delta, emu) ==
    LET state == tick(release_key, release_key_state, delta)
        fin == finished(release_key, state)
        flush == fin /\ contains(emu, MODIFIER)
    IN  IF ~fin
        THEN [sent |-> {}, flushed |-> << >>, last_pressed |-> last_pressed,
              modifiers |-> modifiers, release_key_state |-> state]
        ELSE [sent |-> {Reciprocal(e) : e \in last_pressed[1]},
              flushed |-> IF flush THEN ModifierFlush(modifiers) ELSE << >>,
              last_pressed |-> swap(<<{}, last_pressed[2]>>),
              modifiers |-> IF flush THEN {} ELSE modifiers,
              release_key_state |-> reset(release_key, state)]

\* C28: unmappable events are inert.  On the emulation path a frame whose key
\* events all translate to nothing sends the same events and leaves the same
\* held keys, stored modifier mask and scheduler state as the same frame with
\* no key event.
C28_UnmappableInert ==
    [][(ran' \in EmulationPaths /\ keys' # << >> /\ Translated(keys') = << >>)
          => LET q == QuietFrame(time_delta', emulation') IN
             /\ Len(keyboard_input') = Cardinality(q.sent) + Len(q.flushed)
             /\ \A e \in q.sent : \E i \in DOMAIN keyboard_input' : keyboard_input'[i] = e
             /\ \A i \in DOMAIN q.flushed :
                   keyboard_input'[Cardinality(q.sent) + i] = q.flushed[i]
             /\ last_pressed' = q.last_pressed
             /\ modifiers' = q.modifiers
             /\ release_key_state' = q.release_key_state]_vars

\* The key codes of the synthetic modifier events.
ModifierKeyCodes ==
    {modifier_to_bevy(crossterm_modifier_to_bevy_key({f}), "Pressed").key_code :
        f \in KeyModifiers}

\* The delta step has sent a press of key code k and k is left reported pressed.
SyntheticPressOpen(k) ==
    /\ \E i \in DOMAIN origin :
          /\ origin[i] = "modifier"
          /\ keyboard_input[i].key_code = k /\ keyboard_input[i].state = "Pressed"
    /\ k \in pressed

\* C29: every synthetic modifier press is eventually released.  Under
\* Duration, FrameCount and Immediate, when the key events stop, every
\* modifier for which the delta step has sent a press has a release sent
\* later, also when MODIFIER is detected or the marker is removed while the
\* stored mask is not empty.
C29_ModifierEventuallyReleased ==
    (release_key.kind # "OnNextKey" /\ <>[](ran # "polling"))
        => \A k \in ModifierKeyCodes \cap KeyCodes :
              [](SyntheticPressOpen(k) => <>(k \notin pressed))

\* C30: the Duration re-arm uses the configured value.  Every reset of the
\* scheduler under Duration(d) leaves a countdown of the d that is configured
\* at the reset, with nothing elapsed, also after ReleaseKey has been written
\* from Duration(d1) to Duration(d2).
C30_RearmConfigured ==
    [][(ran' = "reset" /\ release_key.kind = "Duration")
          => /\ release_key_state'.tag = "Timer"
             /\ release_key_state'.duration = release_key.arg
             /\ release_key_state'.elapsed = 0
             /\ ~release_key_state'.finished]_vars

\* C31: pass-through gating.  At the emission step of every frame
\* send_key_events_no_emulation runs if and only if the effective emulation
\* set of the policy and the detected capabilities is empty, and
\* send_key_events_with_emulation runs whenever it is not.
C31_PassThroughGating ==
    ran \in EmissionPaths
        => /\ ran = "no_emulation" <=> emulate_capabilities(policy, detected) = NONE
           /\ ran \in EmulationPaths <=> emulate_capabilities(policy, detected) # NONE
           /\ Emulate <=> ran \in EmulationPaths

C31_Witness ==
    /\ ran = "no_emulation" /\ policy = Automatic /\ detected = ALL /\ ~Emulate
    /\ keys # << >>

\* C32 as stated: policy change re-enables emulation.  When the marker has
\* been removed and the policy is then written to one whose effective emulation
\* set (with the capabilities detected so far) is not empty, the next frame has
\* the marker again and send_key_events_with_emulation processes its events.
C32_PolicyChangeReenables ==
    [][(/\ ~Emulate /\ policy_changed /\ ran' \in EmissionPaths
        /\ emulate_capabilities(policy, detected) # NONE)
          => Emulate' /\ ran' \in EmulationPaths]_vars

\* C32, amended: the same, for a policy whose effective emulation set is not
\* empty with the capabilities detected up to and including the key events of
\* the next frame.
C32_PolicyChangeReenablesAfterDetection ==
    [][(/\ ~Emulate /\ policy_changed /\ ran' \in EmissionPaths
        /\ emulate_capabilities(policy', detected') # NONE)
          => /\ Emulate' /\ ran' \in EmulationPaths
             /\ detected' = detect_capabilities(keys', detected)]_vars

C32_Witness ==
    /\ ~Emulate /\ policy_changed /\ ran = "polling" /\ keys # << >>
    /\ emulate_capabilities(policy, detect_capabilities(keys, detected)) # NONE

\* C33 as stated: the reaction to a policy change (the marker inserted again,
\* the capabilities detected again) is triggered only when the value of the
\* policy changes.  On a frame that starts without the marker and with the
\* policy equal to its value at the last frame (not written, or written with
\* an equal value), the marker is not inserted and nothing is detected.
C33_OnlyOnValueChange ==
    [][(ran' \in EmissionPaths /\ ~Emulate /\ policy = last_policy)
          => /\ detected' = detected
             /\ ~Emulate' /\ ran' = "no_emulation"]_vars

\* C33, amended: the reaction is triggered by every write of the policy, of an
\* equal value too, and only by a write.  On a frame that starts without the
\* marker, nothing is detected and the marker stays absent when the policy has
\* not been written since the last frame, and the capabilities are detected on
\* the frame's key events when it has.
C33_OnlyOnWrite ==
    [][(ran' \in EmissionPaths /\ ~Emulate)
          => IF policy_changed
             THEN detected' = detect_capabilities(keys', detected)
             ELSE /\ detected' = detected
                  /\ ~Emulate' /\ ran' = "no_emulation"
                  /\ policy = last_policy]_vars

C33_Witness ==
    /\ ran = "no_emulation" /\ ~Emulate /\ ~policy_changed
    /\ keys # << >> /\ detect_capabilities(keys, detected) # detected

\* The canonical events of the key events evs, in arrival order.
TranslatedEvents(evs) ==
    LET t == Translated(evs) IN [i \in DOMAIN t |-> t[i].event]

\* One press for each repeat among the key events evs, in arrival order.
RepeatPresses(evs) ==
    LET t == SelectSeq(Translated(evs), LAMBDA x : x.repeated)
    IN  [i \in DOMAIN t |-> KeyboardInput(t[i].event.key_code, t[i].event.logical_key,
                                          "Pressed")]

\* C34: pass-through repeat handling.  A frame of send_key_events_no_emulation
\* sends exactly one canonical event for each mappable key event, with its
\* translated transition and in arrival order; each repeat of a key on a frame
\* has one press of the key sent on the next frame of the path, before every
\* event of that frame's key events (the presses are what the frame leaves in
\* key_repeat_queue and what the next frame sends first).
C34_PassThroughRepeat ==
    [][ran' = "no_emulation"
          => /\ keyboard_input' = key_repeat_queue \o TranslatedEvents(keys')
             /\ key_repeat_queue' = RepeatPresses(keys')
             /\ ran = "no_emulation" => key_repeat_queue = RepeatPresses(keys)]_vars

C34_Witness ==
    /\ ran = "no_emulation"
    /\ keys = <<KeyEvent("a", {}, "Repeat"), KeyEvent("b", {}, "Press")>>
    /\ origin = <<"queue", "key", "key">>
    /\ key_repeat_queue = <<KeyboardInput("KeyA", "a", "Pressed")>>

\* C35: no modifier emulation when not required.  On every frame on which
\* MODIFIER is not in the effective emulation set, neither the delta step nor
\* the flush sends a synthetic modifier event, and the stored modifier mask is
\* left as it is.
C35_NoModifierEmulation ==
    [][(ran' \in EmissionPaths /\ ~(MODIFIER \subseteq emulation'))
          => /\ \A i \in DOMAIN origin' : origin'[i] \notin {"modifier", "flush"}
             /\ modifiers' = modifiers]_vars

C35_Witness ==
    /\ ran = "emulation" /\ ~(MODIFIER \subseteq emulation) /\ was_finished
    /\ keys = <<KeyEvent("a", {}, "Press")>>
    /\ modifiers = {"SHIFT"}

\* C36: lockstep quiescence.  With both capabilities emulated, on a frame
\* with no key event on which the scheduler has finished, every held key and
\* every held modifier is released on that frame, all the releases of keys are
\* sent before the releases of modifiers, nothing is held afterwards, and the
\* scheduler is reset once.
C36_LockstepQuiescence ==
    [][(ran' \in EmulationPaths /\ emulation' = ALL /\ keys' = << >> /\ was_finished')
          => /\ \A e \in last_pressed[1] :
                   DrainSent(e.key_code, "Released", keyboard_input', origin') # {}
             /\ \A f \in modifiers :
                   \E i \in DOMAIN origin' :
                      /\ origin'[i] = "flush"
                      /\ keyboard_input'[i] =
                            modifier_to_bevy(crossterm_modifier_to_bevy_key({f}), "Released")
             /\ \A i, j \in DOMAIN origin' :
                   (origin'[i] = "reciprocal" /\ origin'[j] = "flush") => i < j
             /\ last_pressed' = <<{}, {}>> /\ modifiers' = {}
             /\ release_key_state' =
                   reset(release_key, tick(release_key, release_key_state, time_delta'))]_vars

\* The key events among the events evs, in the order read.
KeysOf(evs) ==
    LET k == SelectSeq(evs, LAMBDA ev : ev.type = "Key") IN [i \in DOMAIN k |-> k[i].key]

\* C37: Ctrl+C in the raw poll.  crossterm_event_system sends AppExit if and
\* only if a key event it has read has the kind Press, the modifiers exactly
\* CONTROL and the code 'c'; that key event is forwarded as a KeyEvent, as is
\* every other key event read.
C37_CtrlC ==
    /\ (\E i \in DOMAIN app_exit : app_exit[i] = "ctrl_c")
          <=> (\E i \in DOMAIN crossterm_events :
                  /\ crossterm_events[i].type = "Key"
                  /\ crossterm_events[i].key = KeyEvent("c", {"CONTROL"}, "Press"))
    /\ keys = KeysOf(crossterm_events)

C37_Witness ==
    /\ poll = "ok" /\ app_exit = <<"ctrl_c">>
    /\ keys = <<KeyEvent("c", {"CONTROL"}, "Release"), KeyEvent("c", {"CONTROL"}, "Press")>>

\* C38: a poll failure exits the app.  When poll() or read() fails during a
\* frame, the loop stops (nothing more is read on that frame), exit_on_error
\* sends one AppExit, and the events read earlier on the frame stay forwarded;
\* when nothing fails exit_on_error sends no AppExit.
C38_PollFailureExits ==
    [][/\ (poll = "running" /\ poll' = "err")
             => /\ app_exit' = Append(app_exit, "error")
                /\ crossterm_events' = crossterm_events
                /\ keys' = keys /\ keys' = KeysOf(crossterm_events')
       /\ poll = "err" => (poll' = "running" /\ crossterm_events' = << >>)
       /\ poll' # "err" => \A i \in DOMAIN app_exit' : app_exit'[i] # "error"]_vars

C38_Witness ==
    /\ poll = "err" /\ app_exit = <<"ctrl_c", "error">>
    /\ Len(crossterm_events) = 2 /\ Len(keys) = 1

====
